---- MODULE Spec2Model ----
(***************************************************************************)
(* Model of src/src/main.ts: the pull-request review action.  main fetches *)
(* the pull request and its diff, filters the parsed files, asks the model *)
(* for findings chunk by chunk, collects the pylint score, posts it as an  *)
(* issue comment and submits the collected review comments.                *)
(*                                                                         *)
(* Text is a sequence of one-character strings.  "SOH" and "DEL" stand for *)
(* the characters U+0001 and U+007F.                                       *)
(***************************************************************************)
EXTENDS Integers, Sequences, FiniteSets, TLC

\* ------------------------------------------------------------------ text

\* F(v), with v evaluated once however often F uses it.
With(v, F(_)) == CHOOSE r \in {F(x) : x \in {v}} : TRUE

\* Code points of the characters below U+0020 and in U+007F..U+009F that the
\* model's texts use; every other character of the model is printable.
ControlCode ==
  [c \in {"SOH", "\t", "\n", "\f", "\r", "DEL"} |->
     CASE c = "SOH" -> 1
       [] c = "\t" -> 9
       [] c = "\n" -> 10
       [] c = "\f" -> 12
       [] c = "\r" -> 13
       [] c = "DEL" -> 127]

\* /[\u0000-\u001F\u007F-\u009F]/
IsControlChar(c) ==
  /\ c \in DOMAIN ControlCode
  /\ \/ ControlCode[c] \in 0..31
     \/ ControlCode[c] \in 127..159

\* A character JSON forbids unescaped inside a string: U+0000..U+001F.
IsC0(c) == c \in DOMAIN ControlCode /\ ControlCode[c] \in 0..31

\* JSON whitespace (also what String-to-Number conversion and trim remove,
\* of the characters the model uses).
IsJsonWs(c) == c \in {" ", "\t", "\n", "\r"}

DigitVal ==
  [c \in {"0", "1", "2", "3", "4", "5", "6", "7", "8", "9"} |->
     CASE c = "0" -> 0 [] c = "1" -> 1 [] c = "2" -> 2 [] c = "3" -> 3
       [] c = "4" -> 4 [] c = "5" -> 5 [] c = "6" -> 6 [] c = "7" -> 7
       [] c = "8" -> 8 [] c = "9" -> 9]

IsDigit(c) == c \in DOMAIN DigitVal

DigitChar(n) == CHOOSE c \in DOMAIN DigitVal : DigitVal[c] = n

RECURSIVE Pow10(_)
Pow10(d) == IF d = 0 THEN 1 ELSE 10 * Pow10(d - 1)

\* The texts parts[lo..hi], one after the other.
RECURSIVE ConcatRange(_, _, _)
ConcatRange(parts, lo, hi) ==
  IF lo > hi THEN <<>>
  ELSE IF lo = hi THEN parts[lo]
  ELSE ConcatRange(parts, lo, (lo + hi) \div 2)
         \o ConcatRange(parts, (lo + hi) \div 2 + 1, hi)

\* The first n texts of the sequence parts, one after the other.
Concat(parts, n) == ConcatRange(parts, 1, n)

StartsWith(t, i, word) ==
  i + Len(word) - 1 <= Len(t) /\ SubSeq(t, i, i + Len(word) - 1) = word

\* The positions of t where a left-to-right, non-overlapping search finds
\* pat (of one or two characters): the positions that hold pat an even
\* number of overlapping occurrences after the last position that does not.
Matches(t, pat) ==
  With({i \in 1..Len(t) : StartsWith(t, i, pat)}, LAMBDA hits :
    IF Len(pat) = 1 THEN hits
    ELSE {i \in hits :
            LET before == {j \in 0..(i - 1) : j \notin hits}
                last == CHOOSE j \in before : \A k \in before : k <= j
            IN (i - last) % 2 = 1})

\* String.prototype.replace with a global regex for the literal text pat
\* (of one or two characters).
ReplaceText(t, pat, rep) ==
  With(Matches(t, pat), LAMBDA at :
    LET parts == [i \in 1..Len(t) |->
                    IF i \in at THEN rep
                    ELSE IF Len(pat) = 2 /\ (i - 1) \in at THEN <<>>
                    ELSE <<t[i]>>]
    IN Concat(parts, Len(t)))

\* String.prototype.trim, for the whitespace the model uses.
Trim(s) ==
  LET keep == {i \in 1..Len(s) : ~IsJsonWs(s[i])} IN
  IF keep = {} THEN <<>>
  ELSE SubSeq(s, CHOOSE i \in keep : \A j \in keep : i <= j,
                 CHOOSE i \in keep : \A j \in keep : j <= i)

\* text.split(sep) for a one-character separator.
Split(t, sep) ==
  With({i \in 1..Len(t) : t[i] = sep}, LAMBDA seps :
    LET SepAt(k) ==
          IF k = 0 THEN 0
          ELSE IF k > Cardinality(seps) THEN Len(t) + 1
          ELSE CHOOSE i \in seps : Cardinality({j \in seps : j < i}) = k - 1
    IN [k \in 1..(Cardinality(seps) + 1) |->
          SubSeq(t, SepAt(k - 1) + 1, SepAt(k) - 1)])

\* ------------------------------------------------------------ JS values

\* A JavaScript value as JSON.parse builds it, or undefined.  t is its type;
\* a number is n / 10^d with no trailing zero in its fraction; an object
\* holds its keys and, at the same positions, their values in items.
Val(t, n, d, s, items, keys) ==
  [t |-> t, n |-> n, d |-> d, s |-> s, items |-> items, keys |-> keys]

Undefined == Val("undefined", 0, 0, <<>>, <<>>, <<>>)
JNull == Val("null", 0, 0, <<>>, <<>>, <<>>)
JTrue == Val("true", 0, 0, <<>>, <<>>, <<>>)
JFalse == Val("false", 0, 0, <<>>, <<>>, <<>>)
JStr(s) == Val("string", 0, 0, s, <<>>, <<>>)
JArr(items) == Val("array", 0, 0, <<>>, items, <<>>)
JObj(keys, items) == Val("object", 0, 0, <<>>, items, keys)

RECURSIVE JNum(_, _)
JNum(n, d) ==
  IF d > 0 /\ n % 10 = 0 THEN JNum(n \div 10, d - 1)
  ELSE Val("number", n, d, <<>>, <<>>, <<>>)

\* Property access v[key]: undefined unless v is an object with that key
\* (the last of duplicate keys wins).  Access on null or undefined throws.
GetProp(v, key) ==
  IF v.t = "object" /\ \E i \in 1..Len(v.keys) : v.keys[i] = key
  THEN v.items[CHOOSE i \in 1..Len(v.keys) :
                  /\ v.keys[i] = key
                  /\ \A j \in 1..Len(v.keys) : v.keys[j] = key => j <= i]
  ELSE Undefined

PropThrows(v) == v.t \in {"null", "undefined"}

\* ----------------------------------------------------------- JSON.parse

ParseFail == [ok |-> FALSE, v |-> Undefined, i |-> 0]
ParseOk(v, i) == [ok |-> TRUE, v |-> v, i |-> i]

\* The first position from i on that holds no whitespace.
SkipWs(t, i) ==
  IF \E j \in i..Len(t) : ~IsJsonWs(t[j])
  THEN CHOOSE j \in i..Len(t) :
         ~IsJsonWs(t[j]) /\ \A k \in i..(j - 1) : IsJsonWs(t[k])
  ELSE IF i > Len(t) THEN i ELSE Len(t) + 1

\* The characters an escape \c stands for (\b and \uXXXX are not modelled).
Unescape ==
  [c \in {"\"", "\\", "/", "n", "r", "t", "f"} |->
     CASE c = "\"" -> "\""
       [] c = "\\" -> "\\"
       [] c = "/" -> "/"
       [] c = "n" -> "\n"
       [] c = "r" -> "\r"
       [] c = "t" -> "\t"
       [] c = "f" -> "\f"]

\* t[i] is the first character after the opening quote.
RECURSIVE ParseString(_, _, _)
ParseString(t, i, acc) ==
  IF i > Len(t) THEN ParseFail
  ELSE IF t[i] = "\"" THEN ParseOk(JStr(acc), i + 1)
  ELSE IF t[i] = "\\"
       THEN IF i + 1 <= Len(t) /\ t[i + 1] \in DOMAIN Unescape
            THEN ParseString(t, i + 2, Append(acc, Unescape[t[i + 1]]))
            ELSE ParseFail
  ELSE IF IsC0(t[i]) THEN ParseFail
  ELSE ParseString(t, i + 1, Append(acc, t[i]))

\* The end of the run of digits that starts at i (i itself when none).
DigitsEnd(t, i) ==
  IF \E j \in i..Len(t) : ~IsDigit(t[j])
  THEN CHOOSE j \in i..Len(t) :
         ~IsDigit(t[j]) /\ \A k \in i..(j - 1) : IsDigit(t[k])
  ELSE IF i > Len(t) THEN i ELSE Len(t) + 1

\* The value of the digits t[i..j-1].
RECURSIVE DigitsValue(_, _, _)
DigitsValue(t, i, j) ==
  IF i >= j THEN 0 ELSE DigitsValue(t, i, j - 1) * 10 + DigitVal[t[j - 1]]

\* The number whose digits are t[a..b-1] and, when frac, after a dot at b,
\* t[b+1..c-1].
Decimal(t, neg, a, b, frac, c) ==
  LET d == IF frac THEN c - (b + 1) ELSE 0
      mant == DigitsValue(t, a, b) * Pow10(d)
                + (IF frac THEN DigitsValue(t, b + 1, c) ELSE 0)
  IN JNum(IF neg THEN -mant ELSE mant, d)

\* -? (0 | [1-9][0-9]*) (. [0-9]+)?   (exponents are not modelled)
ParseNumber(t, i) ==
  With(IF t[i] = "-" THEN i + 1 ELSE i, LAMBDA a :
  With(DigitsEnd(t, a), LAMBDA b :
  With(b <= Len(t) /\ t[b] = ".", LAMBDA frac :
  With(IF frac THEN DigitsEnd(t, b + 1) ELSE b, LAMBDA c :
    IF b = a \/ (t[a] = "0" /\ b > a + 1) \/ (frac /\ c = b + 1)
    THEN ParseFail
    ELSE ParseOk(Decimal(t, t[i] = "-", a, b, frac, c), c)))))

RECURSIVE ParseValue(_, _)
RECURSIVE ParseItems(_, _, _, _)
RECURSIVE ParseMembers(_, _, _, _, _)
RECURSIVE ParseMember(_, _, _, _, _)

\* t[i] is the first character of the value (whitespace already skipped).
ParseValue(t, i) ==
  IF i > Len(t) THEN ParseFail
  ELSE IF t[i] = "{" THEN ParseMembers(t, i + 1, <<>>, <<>>, TRUE)
  ELSE IF t[i] = "[" THEN ParseItems(t, i + 1, <<>>, TRUE)
  ELSE IF t[i] = "\"" THEN ParseString(t, i + 1, <<>>)
  ELSE IF t[i] = "-" \/ IsDigit(t[i]) THEN ParseNumber(t, i)
  ELSE IF StartsWith(t, i, <<"n", "u", "l", "l">>) THEN ParseOk(JNull, i + 4)
  ELSE IF StartsWith(t, i, <<"t", "r", "u", "e">>) THEN ParseOk(JTrue, i + 4)
  ELSE IF StartsWith(t, i, <<"f", "a", "l", "s", "e">>)
       THEN ParseOk(JFalse, i + 5)
  ELSE ParseFail

\* The elements of an array from position i; first: none has been read.
ParseItems(t, i, acc, first) ==
  With(SkipWs(t, i), LAMBDA j :
    IF j > Len(t) THEN ParseFail
    ELSE IF first /\ t[j] = "]" THEN ParseOk(JArr(acc), j + 1)
    ELSE With(ParseValue(t, j), LAMBDA r :
           IF ~r.ok THEN ParseFail
           ELSE With(SkipWs(t, r.i), LAMBDA k :
                  IF k > Len(t) THEN ParseFail
                  ELSE IF t[k] = ","
                       THEN ParseItems(t, k + 1, Append(acc, r.v), FALSE)
                  ELSE IF t[k] = "]"
                       THEN ParseOk(JArr(Append(acc, r.v)), k + 1)
                  ELSE ParseFail)))

\* The value of a member and what follows it, from the colon at c on.
ParseMember(t, c, key, keys, items) ==
  With(ParseValue(t, SkipWs(t, c + 1)), LAMBDA r :
    IF ~r.ok THEN ParseFail
    ELSE With(SkipWs(t, r.i), LAMBDA k :
           IF k > Len(t) THEN ParseFail
           ELSE IF t[k] = ","
                THEN ParseMembers(t, k + 1, Append(keys, key),
                                  Append(items, r.v), FALSE)
           ELSE IF t[k] = "}"
                THEN ParseOk(JObj(Append(keys, key), Append(items, r.v)),
                             k + 1)
           ELSE ParseFail))

\* The members of an object from position i; first: none has been read.
ParseMembers(t, i, keys, items, first) ==
  With(SkipWs(t, i), LAMBDA j :
    IF j > Len(t) THEN ParseFail
    ELSE IF first /\ t[j] = "}" THEN ParseOk(JObj(keys, items), j + 1)
    ELSE IF t[j] # "\"" THEN ParseFail
    ELSE With(ParseString(t, j + 1, <<>>), LAMBDA key :
           IF ~key.ok THEN ParseFail
           ELSE With(SkipWs(t, key.i), LAMBDA c :
                  IF c > Len(t) THEN ParseFail
                  ELSE IF t[c] # ":" THEN ParseFail
                  ELSE ParseMember(t, c, key.v.s, keys, items))))

\* JSON.parse(text): ok is FALSE where it throws a SyntaxError.
JSONParse(text) ==
  With(text, LAMBDA t :
  With(ParseValue(t, SkipWs(t, 1)), LAMBDA r :
    IF r.ok /\ SkipWs(t, r.i) = Len(t) + 1
    THEN [ok |-> TRUE, v |-> r.v]
    ELSE [ok |-> FALSE, v |-> Undefined]))

\* ------------------------------------------------------- JSON.stringify

RECURSIVE NatToText(_)
NatToText(k) ==
  IF k < 10 THEN <<DigitChar(k)>>
  ELSE Append(NatToText(k \div 10), DigitChar(k % 10))

\* The last w digits of k, with leading zeros.
RECURSIVE PadDigits(_, _)
PadDigits(k, w) ==
  IF w = 0 THEN <<>>
  ELSE Append(PadDigits(k \div 10, w - 1), DigitChar(k % 10))

\* The text of the number n / 10^d.
NumToText(n, d) ==
  LET a == IF n < 0 THEN -n ELSE n IN
  (IF n < 0 THEN <<"-">> ELSE <<>>)
    \o NatToText(a \div Pow10(d))
    \o (IF d = 0 THEN <<>> ELSE <<".">> \o PadDigits(a % Pow10(d), d))

\* How JSON.stringify writes one character of a string.
QuoteChar(c) ==
  CASE c = "\"" -> <<"\\", "\"">>
    [] c = "\\" -> <<"\\", "\\">>
    [] c = "\n" -> <<"\\", "n">>
    [] c = "\r" -> <<"\\", "r">>
    [] c = "\t" -> <<"\\", "t">>
    [] c = "\f" -> <<"\\", "f">>
    [] OTHER -> <<c>>

Quote(s) ==
  <<"\"">> \o Concat([i \in 1..Len(s) |-> QuoteChar(s[i])], Len(s))
    \o <<"\"">>

RECURSIVE StringifyText(_)

\* The text JSON.stringify gives for a value other than undefined.
StringifyText(v) ==
  LET Sep(i) == IF i > 1 THEN <<",">> ELSE <<>> IN
  CASE v.t = "null" -> <<"n", "u", "l", "l">>
    [] v.t = "true" -> <<"t", "r", "u", "e">>
    [] v.t = "false" -> <<"f", "a", "l", "s", "e">>
    [] v.t = "number" -> NumToText(v.n, v.d)
    [] v.t = "string" -> Quote(v.s)
    [] v.t = "array" ->
         <<"[">>
           \o Concat([i \in 1..Len(v.items) |->
                        Sep(i) \o StringifyText(v.items[i])], Len(v.items))
           \o <<"]">>
    [] v.t = "object" ->
         <<"{">>
           \o Concat([i \in 1..Len(v.keys) |->
                        Sep(i) \o Quote(v.keys[i]) \o <<":">>
                          \o StringifyText(v.items[i])], Len(v.keys))
           \o <<"}">>

\* JSON.parse(JSON.stringify(v)).  JSON.stringify(undefined) is undefined,
\* which JSON.parse reads as the text "undefined" and rejects.
RoundTrip(v) ==
  IF v.t = "undefined" THEN [ok |-> FALSE, v |-> Undefined]
  ELSE JSONParse(StringifyText(v))

\* --------------------------------------------------------------- Number

NaN == [nan |-> TRUE, n |-> 0, d |-> 0]
Num(n, d) == [nan |-> FALSE, n |-> n, d |-> d]

\* Number(text): the trimmed text read as [+-]? digits* (. digits*)? with at
\* least one digit; the empty text is 0; anything else is NaN (hexadecimal,
\* exponents and Infinity are not modelled).
StringToNumber(s) ==
  With(Trim(s), LAMBDA t :
    IF t = <<>> THEN Num(0, 0)
    ELSE
      With(IF t[1] \in {"+", "-"} THEN 2 ELSE 1, LAMBDA a :
      With(DigitsEnd(t, a), LAMBDA b :
      With(b <= Len(t) /\ t[b] = ".", LAMBDA frac :
      With(IF frac THEN DigitsEnd(t, b + 1) ELSE b, LAMBDA c :
        IF c # Len(t) + 1 \/ (b - a) + (c - b) <= (IF frac THEN 1 ELSE 0)
        THEN NaN
        ELSE With(Decimal(t, t[1] = "-", a, b, frac, c), LAMBDA num :
               Num(num.n, num.d)))))))

\* Number(v) for any value.  An array converts through its text: [] is "",
\* [x] is the text of x, and a longer one holds a comma.
RECURSIVE ToNumber(_)
ToNumber(v) ==
  CASE v.t = "undefined" -> NaN
    [] v.t = "null" -> Num(0, 0)
    [] v.t = "true" -> Num(1, 0)
    [] v.t = "false" -> Num(0, 0)
    [] v.t = "number" -> Num(v.n, v.d)
    [] v.t = "string" -> StringToNumber(v.s)
    [] v.t = "object" -> NaN
    [] v.t = "array" ->
         IF v.items = <<>> THEN Num(0, 0)
         ELSE IF Len(v.items) > 1 THEN NaN
         ELSE IF v.items[1].t \in {"null", "undefined"} THEN Num(0, 0)
         ELSE IF v.items[1].t \in {"true", "false", "object"} THEN NaN
         ELSE ToNumber(v.items[1])

IsPositiveInteger(x) == ~x.nan /\ x.d = 0 /\ x.n > 0

\* -------------------------------------------------------- getAIResponse

\* What anthropic.messages.create does for one prompt: it rejects
\* ("throws"), or resolves with no content block ("empty"), with a first
\* block that is not text ("other"), or with a first text block ("text").
ModelOutcome(kind, text) == [kind |-> kind, text |-> text]

\* The recovery pass over a content that failed to parse.
CleanedContent(content) ==
  With(SelectSeq(content, LAMBDA c : ~IsControlChar(c)), LAMBDA stripped :
  With(ReplaceText(stripped, <<"\n">>, <<"\\", "n">>), LAMBDA r1 :
  With(ReplaceText(r1, <<"\r">>, <<"\\", "r">>), LAMBDA r2 :
  With(ReplaceText(r2, <<"\t">>, <<"\\", "t">>), LAMBDA r3 :
  With(ReplaceText(r3, <<"\f">>, <<"\\", "f">>), LAMBDA r4 :
  With(ReplaceText(r4, <<"\"">>, <<"\\", "\"">>), LAMBDA r5 :
    ReplaceText(r5, <<"\\", "'">>, <<"'">>)))))))

KeyReviews == <<"r", "e", "v", "i", "e", "w", "s">>
KeyLineNumber == <<"l", "i", "n", "e", "N", "u", "m", "b", "e", "r">>
KeyReviewComment ==
  <<"r", "e", "v", "i", "e", "w", "C", "o", "m", "m", "e", "n", "t">>

\* The result of getAIResponse: null, or the sanitized reviews.  parses
\* lists the texts JSON.parse was called on for the content, in order.
AINull(parses) == [null |-> TRUE, reviews |-> <<>>, parses |-> parses]
AIReviews(reviews, parses) ==
  [null |-> FALSE, reviews |-> reviews, parses |-> parses]

\* parsedContent.reviews.map(...): the property reads throw on a null
\* element, and the round trip of reviewComment throws on undefined.
SanitizedReviews(reviews) ==
  With([i \in 1..Len(reviews) |->
          IF PropThrows(reviews[i]) THEN [ok |-> FALSE, v |-> Undefined]
          ELSE RoundTrip(GetProp(reviews[i], KeyReviewComment))],
       LAMBDA trips :
    [throws |-> \E i \in 1..Len(reviews) : ~trips[i].ok,
     reviews |-> [i \in 1..Len(reviews) |->
                    [lineNumber |-> GetProp(reviews[i], KeyLineNumber),
                     reviewComment |-> trips[i].v]]])

\* getAIResponse from the parsed content on.
FromParsedContent(parsedContent, parses) ==
  IF PropThrows(parsedContent) THEN AINull(parses)
  ELSE With(GetProp(parsedContent, KeyReviews), LAMBDA reviews :
         IF reviews.t # "array" THEN AINull(parses)
         ELSE With(SanitizedReviews(reviews.items), LAMBDA sanitized :
                IF sanitized.throws THEN AINull(parses)
                ELSE AIReviews(sanitized.reviews, parses)))

\* Faulty variant of getAIResponse: a content that parses after the recovery
\* pass is answered with an empty list of findings, whatever it holds.
getAIResponseRecoveredEmpty(o) ==
  IF o.kind \in {"throws", "empty"} THEN AINull(<<>>)
  ELSE
    With(IF o.kind = "text" THEN o.text ELSE <<>>, LAMBDA content :
    With(JSONParse(content), LAMBDA first :
      IF first.ok THEN FromParsedContent(first.v, <<"content">>)
      ELSE With(JSONParse(CleanedContent(content)), LAMBDA second :
             IF ~second.ok THEN AINull(<<"content", "cleanedContent">>)
             ELSE AIReviews(<<>>, <<"content", "cleanedContent">>))))

\* getAIResponse on what the model call did: null when the call threw or
\* gave no block, else the content parsed, cleaned and parsed again when
\* that failed, and read from there.
getAIResponse(o) ==
  IF o.kind \in {"throws", "empty"} THEN AINull(<<>>)
  ELSE
    With(IF o.kind = "text" THEN o.text ELSE <<>>, LAMBDA content :
    With(JSONParse(content), LAMBDA first :
      IF first.ok THEN FromParsedContent(first.v, <<"content">>)
      ELSE With(JSONParse(CleanedContent(content)), LAMBDA second :
             IF ~second.ok THEN AINull(<<"content", "cleanedContent">>)
             ELSE FromParsedContent(second.v,
                                    <<"content", "cleanedContent">>))))

\* -------------------------------------------------------- createComment

\* A parsed file: to is absent (undefined) or a path; chunks are its hunks.
Absent == [present |-> FALSE, s |-> <<>>]
Path(s) == [present |-> TRUE, s |-> s]
File(to, chunks) == [to |-> to, chunks |-> chunks]

DevNull == <<"/", "d", "e", "v", "/", "n", "u", "l", "l">>

\* !file.to
NoTarget(file) == ~file.to.present \/ file.to.s = <<>>

\* Faulty variant of createComment: flatMap's callback answering with the
\* comment of the first finding alone.
createCommentFirstOnly(file, aiResponses) ==
  IF NoTarget(file) \/ aiResponses = <<>> THEN <<>>
  ELSE <<[body |-> aiResponses[1].reviewComment,
          path |-> file.to.s,
          line |-> ToNumber(aiResponses[1].lineNumber)]>>

\* The comments of one chunk: none for a file without target, else one for
\* each finding, its line made a number.
createComment(file, aiResponses) ==
  IF NoTarget(file) THEN <<>>
  ELSE [i \in 1..Len(aiResponses) |->
          [body |-> aiResponses[i].reviewComment,
           path |-> file.to.s,
           line |-> ToNumber(aiResponses[i].lineNumber)]]

\* ------------------------------------------------------------ minimatch

\* The characters f[j..] of a path segment against the characters p[i..] of
\* a pattern segment: "*" stands for any run of characters, "?" for one.
RECURSIVE MatchChars(_, _, _, _)
MatchChars(p, i, f, j) ==
  IF i > Len(p) THEN j > Len(f)
  ELSE IF p[i] = "*"
       THEN \/ MatchChars(p, i + 1, f, j)
            \/ j <= Len(f) /\ MatchChars(p, i, f, j + 1)
  ELSE IF j > Len(f) THEN FALSE
  ELSE (p[i] = "?" \/ p[i] = f[j]) /\ MatchChars(p, i + 1, f, j + 1)

\* A segment that starts with a wildcard matches no empty segment and no
\* segment that starts with a dot.
MatchSegment(p, f) ==
  IF p # <<>> /\ p[1] \in {"*", "?"}
  THEN f # <<>> /\ f[1] # "." /\ MatchChars(p, 1, f, 1)
  ELSE MatchChars(p, 1, f, 1)

\* The segments fs[j..] of the path against the segments ps[i..] of the
\* pattern: "**" stands for any number of segments, none starting with a dot.
RECURSIVE MatchSegments(_, _, _, _)
MatchSegments(ps, i, fs, j) ==
  IF i > Len(ps) THEN j > Len(fs)
  ELSE IF ps[i] = <<"*", "*">>
       THEN \/ MatchSegments(ps, i + 1, fs, j)
            \/ /\ j <= Len(fs)
               /\ ~(fs[j] # <<>> /\ fs[j][1] = ".")
               /\ MatchSegments(ps, i, fs, j + 1)
  ELSE /\ j <= Len(fs)
       /\ MatchSegment(ps[i], fs[j])
       /\ MatchSegments(ps, i + 1, fs, j + 1)

\* minimatch(path, pattern) with the default options: the empty pattern
\* matches the empty path only and a pattern that starts with "#" is a
\* comment (negation, braces and character classes are not modelled).
minimatch(path, pattern) ==
  IF pattern = <<>> THEN path = <<>>
  ELSE IF pattern[1] = "#" THEN FALSE
  ELSE With(Split(pattern, "/"), LAMBDA ps :
       With(Split(path, "/"), LAMBDA fs : MatchSegments(ps, 1, fs, 1)))

\* core.getInput("exclude").split(",").map((s) => s.trim())
ExcludePatterns(input) ==
  With(Split(input, ","), LAMBDA parts :
    [i \in 1..Len(parts) |-> Trim(parts[i])])

\* Faulty variant of Retained: every in place of some, which keeps a file
\* unless all the patterns match it.
RetainedUnlessAllMatch(file, patterns) ==
  ~\A i \in 1..Len(patterns) : minimatch(file.to.s, patterns[i])

\* The predicate of parsedDiff.filter: file.to ?? "" matches no pattern.
Retained(file, patterns) ==
  ~\E i \in 1..Len(patterns) : minimatch(file.to.s, patterns[i])

FilterDiff(files, patterns) ==
  SelectSeq(files, LAMBDA file : Retained(file, patterns))

\* -------------------------------------------------------- getPylintScore

\* parsePylint, on the text that follows "Your code has been rated at " in
\* the report (rated is FALSE when the report has no such sentence): the
\* regex needs digits, a dot and digits there, and parseFloat reads them.
parsePylint(out) ==
  With(out.rating, LAMBDA t :
  With(DigitsEnd(t, 1), LAMBDA b :
  With(IF b <= Len(t) /\ t[b] = "." THEN DigitsEnd(t, b + 1) ELSE b,
       LAMBDA c :
    IF out.rated /\ b > 1 /\ c > b + 1
    THEN With(Decimal(t, FALSE, 1, b, TRUE, c), LAMBDA m : Num(m.n, m.d))
    ELSE Num(0, 0))))

\* score.toFixed(2), for a score of at most two decimals.
ToFixed2(x) == NumToText(x.n * Pow10(2 - x.d), 2)

\* ----------------------------------------------------------------- inputs

\* The bounds of the diffs: files in a diff, and chunks in a diff.
MaxFiles == 2
MaxChunks == 2

APy == <<"a", ".", "p", "y">>
DocMd == <<"d", "/", "b", ".", "m", "d">>

\* eventData.action: the two supported actions and two others.
EventActions == {"opened", "synchronize", "closed", "edited"}

\* The exclude input: not set, or two patterns with blanks around them, of
\* which the first matches d/b.md and the second no target of the model.
ExcludeInputs ==
  { <<>>,
    <<" ", "*", "*", "/", "*", ".", "m", "d", " ", ",", " ", "*", ".", "t", "s">> }

FileTargets == {Absent, Path(DevNull), Path(APy), Path(DocMd)}

Files ==
  {File(to, [i \in 1..n |-> i]) : to \in FileTargets, n \in 0..MaxChunks}

RECURSIVE ChunkCount(_)
ChunkCount(files) ==
  IF files = <<>> THEN 0
  ELSE Len(Head(files).chunks) + ChunkCount(Tail(files))

ParsedDiffs ==
  {fs \in UNION {[1..n -> Files] : n \in 0..MaxFiles} :
     ChunkCount(fs) <= MaxChunks}

\* What the host sends as the diff: nothing (null), the empty text, or a
\* diff text, held as the files parseDiff reads from it.
NullDiff == [kind |-> "null", files |-> <<>>]
EmptyDiff == [kind |-> "empty", files |-> <<>>]
DiffText(files) == [kind |-> "text", files |-> files]
NoDiff == [kind |-> "unset", files |-> <<>>]

HostDiffs == {NullDiff, EmptyDiff} \cup {DiffText(fs) : fs \in ParsedDiffs}

\* String(response.data): null becomes the text "null", which holds no file.
ToDiffString(data) == IF data.kind = "null" THEN DiffText(<<>>) ELSE data

\* Faulty variant of DiffFalsy: a test for null alone, which lets the empty
\* text through to parseDiff.
DiffFalsyNullOnly(d) == d.kind = "null"

\* !diff
DiffFalsy(d) == d.kind \in {"null", "empty"}

parseDiff(d) == d.files

Q == "\""

\* The text of {"reviews": [...]} with the given texts of its elements.
ReviewsText(items) ==
  <<"{", Q>> \o KeyReviews \o <<Q, ":", "[">> \o items \o <<"]", "}">>

\* The text of one {"lineNumber": ..., "reviewComment": "..."}.
ReviewText(line, comment) ==
  <<"{", Q>> \o KeyLineNumber \o <<Q, ":">> \o line \o <<",", Q>>
    \o KeyReviewComment \o <<Q, ":", Q>> \o comment \o <<Q, "}">>

\* The outcomes of one model call in a run of main: a rejected call, a text
\* that is not JSON before or after the recovery pass, JSON without reviews,
\* one finding, and two findings whose line numbers are a text that is no
\* number and a negative number.
ModelOutcomes ==
  { ModelOutcome("throws", <<>>),
    ModelOutcome("text", <<"n", "o", "t", " ", "j", "s", "o", "n">>),
    ModelOutcome("text", <<"{", "}">>),
    ModelOutcome("text", ReviewsText(ReviewText(<<"7">>, <<"A">>))),
    ModelOutcome("text",
      ReviewsText(ReviewText(<<Q, "x", Q>>, <<"B", "\\", "n">>) \o <<",">>
                    \o ReviewText(<<"-", "1">>, <<"C">>))) }

\* The bound of the generated response texts: their length.
MaxTextLen == 3

TextChars == {"{", "}", "[", "]", Q, ",", "1", "\n", "DEL"}

ShortTexts == UNION {[1..n -> TextChars] : n \in 0..MaxTextLen}

\* Response texts with one finding: the line number as a number, as texts
\* (blank-padded, fractional, signed, empty), zero, a fraction, a list, null
\* and missing; a comment with a raw line feed, with escapes and with DEL;
\* a comment that is not a text, and one that is missing.
FindingTexts ==
  {ReviewsText(ReviewText(line, <<"A">>)) :
     line \in { <<"7">>, <<"0">>, <<"1", ".", "5">>, <<"-", "1">>,
                <<Q, " ", "1", "2", " ", Q>>, <<Q, "2", ".", "0", Q>>,
                <<Q, "+", "3", Q>>, <<Q, Q>>, <<Q, "x", Q>>,
                <<"[", "4", "]">>, <<"n", "u", "l", "l">>,
                <<"t", "r", "u", "e">> }}
  \cup
  {ReviewsText(ReviewText(<<"7">>, comment)) :
     comment \in { <<"A", "\n", "B">>, <<"A", "\\", "n", "\\", Q, "B">>,
                   <<"A", "DEL", "\\", "\\">>, <<"A", "\\", "'">> }}
  \cup
  { ReviewsText(<<"{", Q>> \o KeyReviewComment \o <<Q, ":", Q, "A", Q, "}">>),
    ReviewsText(<<"{", Q>> \o KeyLineNumber \o <<Q, ":", "7", "}">>),
    ReviewsText(<<"{", Q>> \o KeyLineNumber \o <<Q, ":", "7", ",", Q>>
                  \o KeyReviewComment \o <<Q, ":", "[", "1", "]", "}">>),
    ReviewsText(<<"n", "u", "l", "l">>),
    ReviewsText(<<>>),
    <<"DEL">> \o ReviewsText(ReviewText(<<"7">>, <<"A">>)),
    <<"n", "u", "SOH", "l", "l">>,
    <<"{", Q>> \o KeyReviews \o <<Q, ":", "1", "}">> }

\* The outcomes of a model call of getAIResponse taken alone.
AdapterOutcomes ==
  {ModelOutcome(k, <<>>) : k \in {"throws", "empty", "other"}}
    \cup {ModelOutcome("text", t) : t \in ShortTexts \cup FindingTexts}
    \cup ModelOutcomes

\* getAIResponse of every outcome of the model.
AIResponse == [o \in AdapterOutcomes |-> getAIResponse(o)]

\* What execAsync gives for the pylint command: it rejects, or resolves
\* with a report.
PylintOutcomes ==
  { [rejects |-> TRUE, rated |-> FALSE, rating |-> <<>>],
    [rejects |-> FALSE, rated |-> FALSE, rating |-> <<>>],
    [rejects |-> FALSE, rated |-> TRUE, rating |-> <<"7", ".", "5", "0", "/", "1", "0">>] }

\* ------------------------------------------------------------------ state

VARIABLES
  pc,             \* where main stands: the call it awaits next, or how it ended
  action,         \* eventData.action
  exclude,        \* core.getInput("exclude")
  diff,           \* main's diff
  parsedDiff,     \* main's parsedDiff
  filteredDiff,   \* main's filteredDiff
  fi, ci,         \* analyzeCode: the file and the chunk of the next model call
  comments,       \* analyzeCode's comments
  pylintScore,    \* main's pylintScore
  calls,          \* the number of calls made, by collaborator
  aiLog,          \* the model calls made: file, chunk, outcome and response
  issueComments,  \* the bodies given to octokit.issues.createComment
  reviews,        \* the payloads given to octokit.pulls.createReview
  error           \* the call whose rejection main().catch received, or "none"

vars ==
  <<pc, action, exclude, diff, parsedDiff, filteredDiff, fi, ci, comments,
    pylintScore, calls, aiLog, issueComments, reviews, error>>

CallNames ==
  {"getPRDetails", "getDiff", "compareCommits", "messagesCreate", "glob",
   "execAsync", "issuesCreateComment", "pullsCreateReview"}

\* One more call of the collaborator name is made.
Called(name) == calls' = [calls EXCEPT ![name] = @ + 1]

Init ==
  /\ pc = "getPRDetails"
  /\ action \in EventActions
  /\ exclude \in ExcludeInputs
  /\ diff = NoDiff
  /\ parsedDiff = <<>>
  /\ filteredDiff = <<>>
  /\ fi = 1
  /\ ci = 1
  /\ comments = <<>>
  /\ pylintScore = Num(0, 0)
  /\ calls = [n \in CallNames |-> 0]
  /\ aiLog = <<>>
  /\ issueComments = <<>>
  /\ reviews = <<>>
  /\ error = "none"

\* ------------------------------------------------------------ analyzeCode

\* Faulty variant of NextPos: the loop over the files without its test for
\* "/dev/null".
RECURSIVE NextPosKeepingDeleted(_, _, _)
NextPosKeepingDeleted(files, f, c) ==
  IF f > Len(files) THEN <<f, 1>>
  ELSE IF c > Len(files[f].chunks)
       THEN NextPosKeepingDeleted(files, f + 1, 1)
  ELSE <<f, c>>

\* The position of the next model call at or after chunk c of file f: the
\* loops pass over deleted files and over files without chunks.
RECURSIVE NextPos(_, _, _)
NextPos(files, f, c) ==
  IF f > Len(files) THEN <<f, 1>>
  ELSE IF files[f].to = Path(DevNull) \/ c > Len(files[f].chunks)
       THEN NextPos(files, f + 1, 1)
  ELSE <<f, c>>

\* analyzeCode runs on from chunk c of file f of files, to its next model
\* call or, when none is left, to its return and on to getPylintScore.
AnalyzeFrom(files, f, c) ==
  LET pos == NextPos(files, f, c) IN
  /\ fi' = pos[1]
  /\ ci' = pos[2]
  /\ pc' = IF pos[1] > Len(files) THEN "glob" ELSE "messagesCreate"

\* One iteration of analyzeCode's inner loop: the model call of
\* getAIResponse, createComment and the push.
AnalyzeChunk ==
  /\ pc = "messagesCreate"
  /\ \E o \in ModelOutcomes :
       LET file == filteredDiff[fi]
           aiResponse == AIResponse[o]
           newComments == IF aiResponse.null THEN <<>>
                          ELSE createComment(file, aiResponse.reviews)
       IN /\ Called("messagesCreate")
          /\ comments' = comments \o newComments
          /\ aiLog' = Append(aiLog, [file |-> fi, chunk |-> ci,
                                     outcome |-> o, response |-> aiResponse])
  /\ AnalyzeFrom(filteredDiff, fi, ci + 1)
  /\ UNCHANGED <<action, exclude, diff, parsedDiff, filteredDiff,
                 pylintScore, issueComments, reviews, error>>

\* ------------------------------------------------------------------- main

\* The awaited call rejects: main rejects, main().catch logs the error and
\* the process exits with status 1.
Fails(call) == pc' = "Failed" /\ error' = call

GetPRDetails ==
  /\ pc = "getPRDetails"
  /\ Called("getPRDetails")
  /\ \E ok \in BOOLEAN :
       IF ok THEN pc' = "dispatch" /\ UNCHANGED error
       ELSE Fails("getPRDetails")
  /\ UNCHANGED <<action, exclude, diff, parsedDiff, filteredDiff, fi, ci,
                 comments, pylintScore, aiLog, issueComments, reviews>>

\* main from the diff being obtained to its first model call, or to the
\* linter when there is none.
WithDiff(d) ==
  /\ diff' = d
  /\ IF DiffFalsy(d)
     THEN /\ pc' = "Aborted"
          /\ UNCHANGED <<parsedDiff, filteredDiff, fi, ci>>
     ELSE /\ parsedDiff' = parseDiff(d)
          /\ filteredDiff' = FilterDiff(parseDiff(d), ExcludePatterns(exclude))
          /\ AnalyzeFrom(filteredDiff', 1, 1)

Opened ==
  /\ pc = "dispatch"
  /\ action = "opened"
  /\ Called("getDiff")
  /\ \/ /\ Fails("getDiff")
        /\ UNCHANGED <<diff, parsedDiff, filteredDiff, fi, ci>>
     \/ /\ \E data \in HostDiffs : WithDiff(data)
        /\ UNCHANGED error
  /\ UNCHANGED <<action, exclude, comments, pylintScore, aiLog,
                 issueComments, reviews>>

Synchronize ==
  /\ pc = "dispatch"
  /\ action = "synchronize"
  /\ Called("compareCommits")
  /\ \/ /\ Fails("compareCommits")
        /\ UNCHANGED <<diff, parsedDiff, filteredDiff, fi, ci>>
     \/ /\ \E data \in HostDiffs : WithDiff(ToDiffString(data))
        /\ UNCHANGED error
  /\ UNCHANGED <<action, exclude, comments, pylintScore, aiLog,
                 issueComments, reviews>>

Unsupported ==
  /\ pc = "dispatch"
  /\ action \notin {"opened", "synchronize"}
  /\ pc' = "Aborted"
  /\ UNCHANGED <<action, exclude, diff, parsedDiff, filteredDiff, fi, ci,
                 comments, pylintScore, calls, aiLog, issueComments, reviews,
                 error>>

\* getPylintScore to its glob call: without Python files the score is 10.
Glob ==
  /\ pc = "glob"
  /\ Called("glob")
  /\ \E found \in BOOLEAN :
       IF found
       THEN pc' = "execAsync" /\ UNCHANGED pylintScore
       ELSE pc' = "issuesCreateComment" /\ pylintScore' = Num(10, 0)
  /\ UNCHANGED <<action, exclude, diff, parsedDiff, filteredDiff, fi, ci,
                 comments, aiLog, issueComments, reviews, error>>

\* getPylintScore from its pylint call: a rejection leaves main through
\* main().catch.
ExecPylint ==
  /\ pc = "execAsync"
  /\ Called("execAsync")
  /\ \E out \in PylintOutcomes :
       IF out.rejects
       THEN Fails("execAsync") /\ UNCHANGED pylintScore
       ELSE /\ pc' = "issuesCreateComment"
            /\ pylintScore' = parsePylint(out)
            /\ UNCHANGED error
  /\ UNCHANGED <<action, exclude, diff, parsedDiff, filteredDiff, fi, ci,
                 comments, aiLog, issueComments, reviews>>

AddPullRequestComment ==
  /\ pc = "issuesCreateComment"
  /\ Called("issuesCreateComment")
  /\ issueComments' = Append(issueComments, ToFixed2(pylintScore))
  /\ \E ok \in BOOLEAN :
       IF ok
       THEN /\ pc' = IF Len(comments) > 0 THEN "pullsCreateReview" ELSE "Done"
            /\ UNCHANGED error
       ELSE Fails("issuesCreateComment")
  /\ UNCHANGED <<action, exclude, diff, parsedDiff, filteredDiff, fi, ci,
                 comments, pylintScore, aiLog, reviews>>

CreateReviewComment ==
  /\ pc = "pullsCreateReview"
  /\ Called("pullsCreateReview")
  /\ reviews' = Append(reviews, [comments |-> comments, event |-> "COMMENT"])
  /\ \E ok \in BOOLEAN :
       IF ok THEN pc' = "Done" /\ UNCHANGED error
       ELSE Fails("pullsCreateReview")
  /\ UNCHANGED <<action, exclude, diff, parsedDiff, filteredDiff, fi, ci,
                 comments, pylintScore, aiLog, issueComments>>

Next ==
  \/ GetPRDetails
  \/ Opened
  \/ Synchronize
  \/ Unsupported
  \/ AnalyzeChunk
  \/ Glob
  \/ ExecPylint
  \/ AddPullRequestComment
  \/ CreateReviewComment

Spec == Init /\ [][Next]_vars

\* ---------------------------------------------- getAIResponse taken alone

\* analyzeCode on one file with one chunk, for every outcome of its model
\* call that AdapterOutcomes holds.
InitAdapter ==
  /\ pc = "messagesCreate"
  /\ action = "opened"
  /\ exclude = <<>>
  /\ diff = DiffText(<<File(Path(APy), <<1>>)>>)
  /\ parsedDiff = parseDiff(diff)
  /\ filteredDiff = FilterDiff(parsedDiff, ExcludePatterns(exclude))
  /\ fi = 1
  /\ ci = 1
  /\ comments = <<>>
  /\ pylintScore = Num(0, 0)
  /\ calls = [n \in CallNames |-> IF n \in {"getPRDetails", "getDiff"}
                                  THEN 1 ELSE 0]
  /\ aiLog = <<>>
  /\ issueComments = <<>>
  /\ reviews = <<>>
  /\ error = "none"

AnalyzeChunkAlone ==
  /\ pc = "messagesCreate"
  /\ \E o \in AdapterOutcomes :
       LET file == filteredDiff[fi]
           aiResponse == AIResponse[o]
           newComments == IF aiResponse.null THEN <<>>
                          ELSE createComment(file, aiResponse.reviews)
       IN /\ Called("messagesCreate")
          /\ comments' = comments \o newComments
          /\ aiLog' = Append(aiLog, [file |-> fi, chunk |-> ci,
                                     outcome |-> o, response |-> aiResponse])
  /\ AnalyzeFrom(filteredDiff, fi, ci + 1)
  /\ UNCHANGED <<action, exclude, diff, parsedDiff, filteredDiff,
                 pylintScore, issueComments, reviews, error>>

SpecAdapter == InitAdapter /\ [][AnalyzeChunkAlone]_vars

\* ----------------------------------------------------------- properties

Supported == action \in {"opened", "synchronize"}

\* main has returned or rejected.
Ended == pc \in {"Done", "Aborted", "Failed"}

\* analyzeCode has returned.
Analyzed ==
  \/ pc \in {"glob", "execAsync", "issuesCreateComment", "pullsCreateReview",
             "Done"}
  \/ pc = "Failed"
       /\ error \in {"execAsync", "issuesCreateComment", "pullsCreateReview"}

IsDeleted(file) == file.to.present /\ file.to.s = DevNull

HasTarget(file) == file.to.present /\ file.to.s # <<>>

\* The chunks of the files that are not deleted, as <<file, chunk>>, in the
\* order of the files and, within a file, of its chunks.
Positions(files) ==
  Concat([f \in 1..Len(files) |->
            IF IsDeleted(files[f]) THEN <<>>
            ELSE [c \in 1..Len(files[f].chunks) |-> <<f, c>>]],
         Len(files))

\* The k-th smallest element of a set of numbers.
KthOf(S, k) == CHOOSE i \in S : Cardinality({j \in S : j < i}) = k - 1

\* The model call of a log entry failed: it threw, or its text parses
\* neither as it is nor after the recovery pass, or what it parses to has
\* no reviews array.
FailedCall(e) ==
  \/ e.outcome.kind = "throws"
  \/ /\ e.outcome.kind = "text"
     /\ With(JSONParse(e.outcome.text), LAMBDA first :
        With(IF first.ok THEN first
             ELSE JSONParse(CleanedContent(e.outcome.text)), LAMBDA parsed :
          \/ ~parsed.ok
          \/ GetProp(parsed.v, KeyReviews).t # "array"))

\* The comments of one log entry, one per finding.
OnePerFinding(e) ==
  [i \in 1..Len(e.response.reviews) |->
     [body |-> e.response.reviews[i].reviewComment,
      path |-> filteredDiff[e.file].to.s,
      line |-> ToNumber(e.response.reviews[i].lineNumber)]]

\* The model calls made so far are the first chunks, in (file, chunk) order,
\* of the files that are not deleted, one call each; none is left once
\* analyzeCode has returned.
CallsInOrder ==
  LET all == Positions(filteredDiff) IN
  /\ Len(aiLog) <= Len(all)
  /\ \A k \in 1..Len(aiLog) : <<aiLog[k].file, aiLog[k].chunk>> = all[k]
  /\ calls["messagesCreate"] = Len(aiLog)
  /\ pc = "messagesCreate" =>
       Len(aiLog) < Len(all) /\ <<fi, ci>> = all[Len(aiLog) + 1]
  /\ Analyzed => Len(aiLog) = Len(all)

\* C1: a failure of the linter call neither aborts the run nor blocks the
\* review: a run whose pylint call rejected does not end in main().catch,
\* and when it has ended with comments collected it has submitted them.
C1_LinterFailureTolerated ==
  calls["execAsync"] > 0 /\ error = "execAsync" =>
    /\ pc # "Failed"
    /\ Ended /\ Len(comments) > 0 => Len(reviews) = 1

\* C2: a failed model call makes getAIResponse return null; analyzeCode adds
\* no comment for that chunk and goes on with the chunks and files that are
\* left; and the run, once it has ended, has posted the lint-score comment.
C2_ModelFailureTolerated ==
  /\ \A k \in 1..Len(aiLog) : FailedCall(aiLog[k]) => aiLog[k].response.null
  /\ comments =
       Concat([k \in 1..Len(aiLog) |->
                 IF FailedCall(aiLog[k]) \/ ~HasTarget(filteredDiff[aiLog[k].file])
                 THEN <<>> ELSE OnePerFinding(aiLog[k])], Len(aiLog))
  /\ CallsInOrder
  /\ (Ended /\ \E k \in 1..Len(aiLog) : FailedCall(aiLog[k])) =>
       Len(issueComments) = 1

\* C3: with an action other than "opened" and "synchronize" main makes no
\* call but the context fetch and ends Aborted; with a supported action and
\* a null or empty diff it ends Aborted with no model call, no linter call,
\* no issue comment and no review.
C3_AbortWithoutSideEffects ==
  /\ ~Supported =>
       /\ \A n \in CallNames \ {"getPRDetails"} : calls[n] = 0
       /\ calls["getPRDetails"] <= 1
       /\ aiLog = <<>> /\ issueComments = <<>> /\ reviews = <<>>
       /\ pc \in {"getPRDetails", "dispatch", "Aborted", "Failed"}
       /\ pc = "Failed" => error = "getPRDetails"
  /\ Supported /\ diff.kind \in {"null", "empty"} =>
       /\ pc = "Aborted"
       /\ \A n \in {"messagesCreate", "glob", "execAsync",
                    "issuesCreateComment", "pullsCreateReview"} : calls[n] = 0
       /\ aiLog = <<>> /\ issueComments = <<>> /\ reviews = <<>>

\* C3 witness: a synchronize run whose compare gave the empty text has ended.
C3_Witness ==
  /\ pc = "Aborted"
  /\ action = "synchronize"
  /\ diff.kind = "empty"
  /\ calls["compareCommits"] = 1

\* C4: a review is submitted if and only if comments were collected: at most
\* one, holding all the comments, with event "COMMENT"; a run that has ended
\* (other than by the host rejecting the issue comment, which is fatal) has
\* submitted one exactly when its comment count is not zero, and a filtered
\* diff without chunks gives no comment and no review.
C4_ReviewIffComments ==
  /\ Len(reviews) <= 1
  /\ calls["pullsCreateReview"] = Len(reviews)
  /\ \A i \in 1..Len(reviews) :
       reviews[i].event = "COMMENT" /\ reviews[i].comments = comments
  /\ Len(reviews) = 1 => Len(comments) > 0
  /\ (Ended /\ diff.kind = "text" /\ error # "issuesCreateComment") =>
       (Len(reviews) = 1 <=> Len(comments) > 0)
  /\ Positions(filteredDiff) = <<>> => comments = <<>> /\ reviews = <<>>

\* C5: a run that got past the event-action and empty-diff checks has, once
\* it has ended, posted exactly one issue comment, and no run posts more
\* than one.
C5_OneLintComment ==
  /\ Len(issueComments) <= 1
  /\ calls["issuesCreateComment"] = Len(issueComments)
  /\ (Ended /\ Supported /\ diff.kind = "text") => Len(issueComments) = 1

\* C6: the path of every collected comment is the target path of a file of
\* the filtered diff that is present and is not "/dev/null"; a file whose
\* target is absent or "/dev/null" adds no comment, and no model call is
\* made for a "/dev/null" file.
C6_CommentPathsAreTargets ==
  /\ \A i \in 1..Len(comments) :
       \E f \in 1..Len(filteredDiff) :
         /\ filteredDiff[f].to.present
         /\ filteredDiff[f].to.s = comments[i].path
         /\ filteredDiff[f].to.s # DevNull
  /\ \A k \in 1..Len(aiLog) : ~IsDeleted(filteredDiff[aiLog[k].file])
  /\ Len(comments) =
       Len(Concat([k \in 1..Len(aiLog) |->
                     IF filteredDiff[aiLog[k].file].to.present
                     THEN aiLog[k].response.reviews ELSE <<>>], Len(aiLog)))

\* C6 witness: the filtered diff starts with a "/dev/null" file that has a
\* chunk, and the file after it has brought comments.
C6_Witness ==
  /\ Len(filteredDiff) = 2
  /\ IsDeleted(filteredDiff[1])
  /\ Len(filteredDiff[1].chunks) > 0
  /\ Len(aiLog) > 0
  /\ Len(comments) > 0

\* C7: the line of every collected and of every submitted comment is a
\* positive integer.
C7_LinesArePositiveIntegers ==
  /\ \A i \in 1..Len(comments) : IsPositiveInteger(comments[i].line)
  /\ \A r \in 1..Len(reviews) :
       \A i \in 1..Len(reviews[r].comments) :
         IsPositiveInteger(reviews[r].comments[i].line)

\* Whether file.to ?? "" matches one of the comma-split, trimmed patterns of
\* an exclude input, for every target and every input of the model.
MatchesSomePattern ==
  [to \in FileTargets, input \in ExcludeInputs |->
     With(ExcludePatterns(input), LAMBDA patterns :
       \E i \in 1..Len(patterns) :
         minimatch(IF to.present THEN to.s ELSE <<>>, patterns[i]))]

\* C8: the filtered diff holds, in their order, exactly the parsed files
\* whose target path (the empty text when absent) matches none of the
\* comma-split, trimmed patterns; the parsed files are what the diff held.
C8_FilterDropsMatchesOnly ==
  diff.kind = "text" =>
    LET keep == {f \in 1..Len(parsedDiff) :
                   ~MatchesSomePattern[parsedDiff[f].to, exclude]}
    IN /\ parsedDiff = diff.files
       /\ Len(filteredDiff) = Cardinality(keep)
       /\ \A k \in 1..Len(filteredDiff) :
            filteredDiff[k] = parsedDiff[KthOf(keep, k)]

\* C8 witness: of two parsed files the first is dropped and the second kept.
C8_Witness ==
  /\ Len(parsedDiff) = 2
  /\ Len(filteredDiff) = 1
  /\ filteredDiff[1] = parsedDiff[2]
  /\ parsedDiff[1].to.present
  /\ parsedDiff[1] # parsedDiff[2]

\* The two parses of lines 255 and 270 on the content of every outcome of the
\* model: whether the content parses, whether the cleaned content parses, and
\* the response to the cleaned content sent as it stands.
RecoveryOf ==
  [o \in AdapterOutcomes |->
     With(CleanedContent(o.text), LAMBDA cleaned :
       [first |-> JSONParse(o.text).ok,
        second |-> JSONParse(cleaned).ok,
        valid |-> getAIResponse(ModelOutcome("text", cleaned))])]

\* C9: the recovery parse is made once, and only after the parse of the
\* content failed; a content that parses only after the recovery pass gives
\* the findings that the cleaned content, valid JSON as it stands, gives.
C9_RecoveryAsValidJson ==
  \A k \in 1..Len(aiLog) :
    LET e == aiLog[k]
        r == RecoveryOf[e.outcome]
    IN
    e.outcome.kind = "text" =>
      /\ e.response.parses =
           IF r.first THEN <<"content">> ELSE <<"content", "cleanedContent">>
      /\ ~r.first /\ r.second =>
           /\ r.valid.parses = <<"content">>
           /\ e.response.null = r.valid.null
           /\ e.response.reviews = r.valid.reviews

\* C9 witness: a content that failed to parse and parsed after the recovery
\* pass.
C9_Witness ==
  \E k \in 1..Len(aiLog) :
    /\ aiLog[k].outcome.kind = "text"
    /\ ~RecoveryOf[aiLog[k].outcome].first
    /\ RecoveryOf[aiLog[k].outcome].second
    /\ aiLog[k].response.parses = <<"content", "cleanedContent">>

\* C10 as stated: the comments are, in (file, chunk) order, one per finding
\* of every chunk, with one model call per chunk of the files that are not
\* deleted.
C10_OneCommentPerFinding ==
  /\ CallsInOrder
  /\ comments =
       Concat([k \in 1..Len(aiLog) |-> OnePerFinding(aiLog[k])], Len(aiLog))

\* C10 as amended: the comments are, in (file, chunk) order, one per finding
\* of every chunk of a file that has a target path, and none for a file that
\* has none; one model call is made per chunk of the files that are not
\* deleted.
C10_OneCommentPerFindingWithTarget ==
  /\ CallsInOrder
  /\ comments =
       Concat([k \in 1..Len(aiLog) |->
                 IF HasTarget(filteredDiff[aiLog[k].file])
                 THEN OnePerFinding(aiLog[k]) ELSE <<>>], Len(aiLog))

\* C10 witness: analyzeCode has returned after two model calls, the first
\* with two findings and the second with one, and holds three comments.
C10_Witness ==
  /\ Analyzed
  /\ Len(aiLog) = 2
  /\ Len(aiLog[1].response.reviews) = 2
  /\ Len(aiLog[2].response.reviews) = 1
  /\ Len(comments) = 3

====
